---- MODULE Spec2Model ----
(***************************************************************************)
(* A model of packages/data/DPRCalculator.ts: the Die, DiceSet and Attack  *)
(* classes and the helper functions T, p_hit, p_crit and                   *)
(* calculateDefaultCritDice.                                               *)
(*                                                                         *)
(* JavaScript numbers are modelled as exact rationals in lowest terms,     *)
(* [n |-> numerator, d |-> denominator] with d > 0, extended with the      *)
(* three non-finite values the arithmetic can produce: d = 0 and n = 0 is  *)
(* NaN, d = 0 and n = 1 is Infinity, d = 0 and n = -1 is -Infinity.  The   *)
(* rounding of IEEE doubles and the sign of zero are not modelled.  The    *)
(* value undefined is the record Undefined.  The operations divide by      *)
(* common factors before they multiply, which keeps the intermediate       *)
(* integers small.                                                         *)
(***************************************************************************)
EXTENDS Integers, Sequences, FiniteSets

VARIABLES
    die,        \* the Die under study
    dieRet,     \* what the last method called on die returned, or None
    hitArgs,    \* the arguments [A, B, M] of a call of p_hit
    hitRet,     \* what p_hit returned for hitArgs, or None
    diceset,    \* the DiceSet under study
    setRet,     \* what the last method called on diceset returned, or None
    critSet,    \* what calculateDefaultCritDice(diceset) returned, or None
    attack,     \* the Attack under study
    attack0,    \* the Attack as it was constructed
    calls,      \* the number of Attack queries called so far
    ret,        \* per Attack query, what its latest call returned
    first       \* per Attack query, what its first call returned

vars == <<die, dieRet, hitArgs, hitRet, diceset, setRet, critSet,
          attack, attack0, calls, ret, first>>

-----------------------------------------------------------------------------
(* JavaScript values *)

Undefined == [t |-> "undefined"]
None == [t |-> "none"]

NaN == [n |-> 0, d |-> 0]

Abs(k) == IF k < 0 THEN -k ELSE k
Sign(k) == IF k < 0 THEN -1 ELSE IF k = 0 THEN 0 ELSE 1

RECURSIVE GCD(_, _)
GCD(a, b) == IF b = 0 THEN a ELSE GCD(b, a % b)

\* the rational n/d (d # 0) in lowest terms with a positive denominator
Norm(n, d) ==
    LET g == GCD(Abs(n), Abs(d))
    IN  [n |-> Sign(d) * (n \div g), d |-> Abs(d) \div g]

Num(k) == [n |-> k, d |-> 1]

IsNaN(a) == a.d = 0 /\ a.n = 0
IsInf(a) == a.d = 0 /\ a.n # 0
IsFinite(a) == a.d # 0

\* ToNumber: undefined converts to NaN
ToNumber(v) == IF v = Undefined THEN NaN ELSE v

\* a + b
Add(x, y) ==
    LET a == ToNumber(x)
        b == ToNumber(y)
    IN  IF IsNaN(a) \/ IsNaN(b) THEN NaN
        ELSE IF IsInf(a) /\ IsInf(b) THEN (IF a.n = b.n THEN a ELSE NaN)
        ELSE IF IsInf(a) THEN a
        ELSE IF IsInf(b) THEN b
        ELSE LET g == GCD(a.d, b.d)
             IN  Norm(a.n * (b.d \div g) + b.n * (a.d \div g), (a.d \div g) * b.d)

\* -a
Neg(x) == LET a == ToNumber(x) IN [n |-> -a.n, d |-> a.d]

\* a - b
Sub(x, y) == Add(x, Neg(y))

\* a * b
Mul(x, y) ==
    LET a == ToNumber(x)
        b == ToNumber(y)
    IN  IF IsNaN(a) \/ IsNaN(b) THEN NaN
        ELSE IF IsInf(a) \/ IsInf(b)
             THEN [n |-> Sign(a.n) * Sign(b.n), d |-> 0]
        ELSE LET g == GCD(Abs(a.n), b.d)
                 h == GCD(Abs(b.n), a.d)
             IN  Norm((a.n \div g) * (b.n \div h), (a.d \div h) * (b.d \div g))

\* a / b
Div(x, y) ==
    LET a == ToNumber(x)
        b == ToNumber(y)
    IN  IF IsNaN(a) \/ IsNaN(b) THEN NaN
        ELSE IF IsInf(a) /\ IsInf(b) THEN NaN
        ELSE IF IsInf(a) THEN [n |-> a.n * (IF b.n < 0 THEN -1 ELSE 1), d |-> 0]
        ELSE IF IsInf(b) THEN Num(0)
        ELSE IF b.n = 0 THEN [n |-> Sign(a.n), d |-> 0]
        ELSE Norm(a.n * b.d, a.d * b.n)

\* a ** m, for a non-negative integer m
RECURSIVE Pow(_, _)
Pow(x, m) == IF m.n = 0 THEN Num(1) ELSE Mul(x, Pow(x, Num(m.n - 1)))

\* a < b, a <= b, a > b, a >= b, a == b: all false when an operand is NaN
Lt(x, y) ==
    LET a == ToNumber(x)
        b == ToNumber(y)
    IN  IF IsNaN(a) \/ IsNaN(b) THEN FALSE
        ELSE IF IsInf(a) \/ IsInf(b)
             THEN (IF IsInf(a) THEN a.n ELSE 0) < (IF IsInf(b) THEN b.n ELSE 0)
        ELSE LET g == GCD(a.d, b.d)
             IN  a.n * (b.d \div g) < b.n * (a.d \div g)
Eq(x, y) ==
    LET a == ToNumber(x)
        b == ToNumber(y)
    IN  ~IsNaN(a) /\ ~IsNaN(b) /\ a = b
Le(x, y) == Lt(x, y) \/ Eq(x, y)
Gt(x, y) == Lt(y, x)
Ge(x, y) == Le(y, x)

-----------------------------------------------------------------------------
(* Helper functions *)

\* function T(N): the triangular number (N ** 2 + N) / 2
T(N) == Div(Add(Pow(N, Num(2)), N), Num(2))

\* the literal 0.05
OneInTwenty == Norm(1, 20)

\* function p_hit(A, B, M = 1)
p_hit(A, B, M) ==
    IF Ge(A, Add(B, Num(20)))
    THEN Sub(Num(1), Pow(Sub(Num(1), OneInTwenty), M))
    ELSE IF Le(A, Add(B, Num(2)))
    THEN Sub(Num(1), Pow(Sub(Num(1), OneInTwenty), M))
    ELSE Sub(Num(1), Pow(Sub(Num(1), Div(Sub(Add(Num(21), B), A), Num(20))), M))

\* function p_crit(crit_range, adv_mod)
p_crit(crit_range, adv_mod) ==
    Sub(Num(1), Pow(Sub(Num(1), Div(Sub(Num(21), crit_range), Num(20))), adv_mod))

-----------------------------------------------------------------------------
(* class Die *)

\* new Die(sides, reroll = 0, minRoll = 1): a default replaces undefined
Die_new(sides, reroll, minRoll) ==
    [sides   |-> sides,
     reroll  |-> IF reroll = Undefined THEN Num(0) ELSE reroll,
     minRoll |-> IF minRoll = Undefined THEN Num(1) ELSE minRoll]

\* Die.getAverageRoll with the floor term of the no-reroll branch off by one:
\* T(minRoll) where the code has T(minRoll - 1)
RECURSIVE getAverageRoll_floorSlip(_)
getAverageRoll_floorSlip(this) ==
    IF Eq(this.reroll, Num(0))
    THEN Div(Add(T(this.sides), T(this.minRoll)), this.sides)
    ELSE IF Gt(this.reroll, this.minRoll)
    THEN Div(Add(Sub(Sub(Add(T(this.sides), T(Sub(this.minRoll, Num(1)))),
                         Mul(this.reroll, this.minRoll)),
                     T(this.minRoll)),
                 Mul(this.reroll,
                     getAverageRoll_floorSlip(
                         Die_new(this.sides, Num(0), this.minRoll)))),
             this.sides)
    ELSE Div(Add(Sub(Add(T(this.sides), T(Sub(this.minRoll, Num(1)))),
                     Mul(this.reroll, this.minRoll)),
                 Mul(this.reroll,
                     getAverageRoll_floorSlip(
                         Die_new(this.sides, Num(0), this.minRoll)))),
             this.sides)

\* Die.getAverageRoll with T(reroll) in the reroll > minRoll branch, where the
\* code has T(minRoll)
RECURSIVE getAverageRoll_rerollTerm(_)
getAverageRoll_rerollTerm(this) ==
    IF Eq(this.reroll, Num(0))
    THEN Div(Add(T(this.sides), T(Sub(this.minRoll, Num(1)))), this.sides)
    ELSE IF Gt(this.reroll, this.minRoll)
    THEN Div(Add(Sub(Sub(Add(T(this.sides), T(Sub(this.minRoll, Num(1)))),
                         Mul(this.reroll, this.minRoll)),
                     T(this.reroll)),
                 Mul(this.reroll,
                     getAverageRoll_rerollTerm(
                         Die_new(this.sides, Num(0), this.minRoll)))),
             this.sides)
    ELSE Div(Add(Sub(Add(T(this.sides), T(Sub(this.minRoll, Num(1)))),
                     Mul(this.reroll, this.minRoll)),
                 Mul(this.reroll,
                     getAverageRoll_rerollTerm(
                         Die_new(this.sides, Num(0), this.minRoll)))),
             this.sides)

\* Die.getAverageRoll
RECURSIVE getAverageRoll(_)
getAverageRoll(this) ==
    IF Eq(this.reroll, Num(0))
    THEN Div(Add(T(this.sides), T(Sub(this.minRoll, Num(1)))), this.sides)
    ELSE IF Gt(this.reroll, this.minRoll)
    THEN Div(Add(Sub(Sub(Add(T(this.sides), T(Sub(this.minRoll, Num(1)))),
                         Mul(this.reroll, this.minRoll)),
                     T(this.minRoll)),
                 Mul(this.reroll,
                     getAverageRoll(Die_new(this.sides, Num(0), this.minRoll)))),
             this.sides)
    ELSE Div(Add(Sub(Add(T(this.sides), T(Sub(this.minRoll, Num(1)))),
                     Mul(this.reroll, this.minRoll)),
                 Mul(this.reroll,
                     getAverageRoll(Die_new(this.sides, Num(0), this.minRoll)))),
             this.sides)

\* Die.getSides
getSides(this) == this.sides

-----------------------------------------------------------------------------
(* class DiceSet *)

\* an array literal
Array(items) == [t |-> "array", items |-> items]

\* v[name] of an array element v: a number has no such property
Prop(v, name) == IF name \in DOMAIN v THEN v[name] ELSE Undefined

\* dice.length as the bound of the constructor's loop, converted to a number
\* by the comparison i < dice.length: an array has its length; a DiceSet
\* object has the method DiceSet.length there, a function, which converts
\* to NaN
LengthOf(dice) == IF dice.t = "array" THEN Num(Len(dice.items)) ELSE NaN

\* the loop of the constructor, from index i on, pushing to this.dice
RECURSIVE DiceSet_push(_, _, _)
DiceSet_push(dice, i, thisDice) ==
    IF Lt(Num(i), LengthOf(dice))
    THEN DiceSet_push(dice, i + 1,
             Append(thisDice,
                    Die_new(Prop(dice.items[i + 1], "sides"),
                            Prop(dice.items[i + 1], "reroll"),
                            Prop(dice.items[i + 1], "minRoll"))))
    ELSE thisDice

\* new DiceSet(dice)
DiceSet_new(dice) == [t |-> "DiceSet", dice |-> DiceSet_push(dice, 0, <<>>)]

\* the loop of DiceSet.getAverageRolls, from index i on
RECURSIVE getAverageRolls_loop(_, _, _)
getAverageRolls_loop(this, i, total) ==
    IF i < Len(this.dice)
    THEN getAverageRolls_loop(this, i + 1,
                              Add(total, getAverageRoll(this.dice[i + 1])))
    ELSE total

\* DiceSet.getAverageRolls
getAverageRolls(this) == getAverageRolls_loop(this, 0, Num(0))

\* DiceSet.getDie(N), for an index N in range
getDie(this, N) == this.dice[N + 1]

\* DiceSet.addDie(die): this after the push
addDie(this, d) == [this EXCEPT !.dice = Append(this.dice, d)]

\* DiceSet.length()
length(this) == Len(this.dice)

\* the loop of calculateDefaultCritDice, from index i on
RECURSIVE calculateDefaultCritDice_loop(_, _, _)
calculateDefaultCritDice_loop(set, i, dice) ==
    IF i < length(set) * 2
    THEN calculateDefaultCritDice_loop(set, i + 1,
             Append(dice, getSides(getDie(set, i % length(set)))))
    ELSE dice

\* function calculateDefaultCritDice(diceset): the DiceSet constructor is
\* handed an array of numbers
calculateDefaultCritDice(set) ==
    DiceSet_new(Array(calculateDefaultCritDice_loop(set, 0, <<>>)))

-----------------------------------------------------------------------------
(* class Attack.  A method is modelled by what it returns, v, and by the     *)
(* object after the call, this.                                             *)

Attack_new(name, attack_bonus, damage_bonus, damage_dice, crit_dice, advantage_modifier, gwmsharp, crit_range, target_AC) ==
    [name               |-> name,
     attack_bonus       |-> attack_bonus,
     damage_bonus       |-> damage_bonus,
     damage_dice        |-> damage_dice,
     crit_dice          |-> crit_dice,
     advantage_modifier |-> advantage_modifier,
     gwmsharp           |-> gwmsharp,
     crit_range         |-> crit_range,
     target_AC          |-> target_AC]

\* Attack.getEffectiveAttackBonus applying the penalty in place:
\* this.attack_bonus -= 5
getEffectiveAttackBonus_inPlace(this) ==
    IF this.gwmsharp = TRUE
    THEN [v    |-> Sub(this.attack_bonus, Num(5)),
          this |-> [this EXCEPT !.attack_bonus = Sub(this.attack_bonus, Num(5))]]
    ELSE [v |-> this.attack_bonus, this |-> this]

\* Attack.getEffectiveAttackBonus
getEffectiveAttackBonus(this) ==
    IF this.gwmsharp = TRUE
    THEN [v |-> Sub(this.attack_bonus, Num(5)), this |-> this]
    ELSE [v |-> this.attack_bonus, this |-> this]

\* Attack.getEffectiveDamageBonus
getEffectiveDamageBonus(this) ==
    IF this.gwmsharp = TRUE
    THEN [v |-> Add(this.damage_bonus, Num(10)), this |-> this]
    ELSE [v |-> this.damage_bonus, this |-> this]

\* Attack.getAverageFromDice
getAverageFromDice(this) ==
    LET A == this.target_AC
        B == getEffectiveAttackBonus(this)
        M == B.this.advantage_modifier
    IN  [v    |-> Mul(p_hit(A, B.v, M),
                      getAverageRolls(DiceSet_new(B.this.damage_dice))),
         this |-> B.this]

\* Attack.getAverageFromBonus
getAverageFromBonus(this) ==
    LET A == this.target_AC
        B == getEffectiveAttackBonus(this)
        M == B.this.advantage_modifier
        D == getEffectiveDamageBonus(B.this)
    IN  [v |-> Mul(p_hit(A, B.v, M), D.v), this |-> D.this]

\* Attack.getAverageFromCritFactor
getAverageFromCritFactor(this) ==
    [v    |-> Mul(p_crit(this.crit_range, this.advantage_modifier),
                  Sub(getAverageRolls(DiceSet_new(this.crit_dice)),
                      getAverageRolls(DiceSet_new(this.damage_dice)))),
     this |-> this]

\* Attack.getAverageTotal
getAverageTotal(this) ==
    LET d == getAverageFromDice(this)
        b == getAverageFromBonus(d.this)
        c == getAverageFromCritFactor(b.this)
    IN  [v |-> Add(Add(d.v, b.v), c.v), this |-> c.this]

-----------------------------------------------------------------------------
(* Bounds of the inputs *)

MaxSides == 8
MaxNeg == 1

DieParams == { Num(k) : k \in -MaxNeg .. MaxSides }
Dice == { Die_new(s, r, m) : s \in DieParams, r \in DieParams, m \in DieParams }

\* p_hit: target_AC in 0 .. MaxAC, attack bonus in -MaxPenalty .. MaxBonus
MaxAC == 26
MaxBonus == 12
MaxPenalty == 5
\* advantage_modifier: 1 for normal, 2 for advantage and 3 for elven accuracy
ElvenAccuracy == 3
Advantages == { Num(k) : k \in 1 .. ElvenAccuracy }

\* the entries of a dice list: { sides, reroll, minRoll, id }
DieEntry(sides, reroll, minRoll) ==
    [sides |-> Num(sides), reroll |-> Num(reroll), minRoll |-> Num(minRoll),
     id |-> Num(1)]
DieEntries == { DieEntry(s, r, m) : s \in {6, 8}, r \in {0, 2}, m \in {1, 2} }

\* DiceSets of at most MaxDice dice at construction, of at most MaxAdded more
MaxDice == 2
MaxAdded == 1
RECURSIVE SeqsUpTo(_, _)
SeqsUpTo(S, k) ==
    IF k = 0 THEN { <<>> }
    ELSE SeqsUpTo(S, k - 1)
         \cup { Append(q, e) : q \in { r \in SeqsUpTo(S, k - 1) : Len(r) = k - 1 },
                               e \in S }
DiceSets == { DiceSet_new(Array(q)) : q \in SeqsUpTo(DieEntries, MaxDice) }

\* k entries of the plain die of the given sides
RECURSIVE Plain(_, _)
Plain(k, sides) == IF k = 0 THEN <<>> ELSE <<DieEntry(sides, 0, 1)>> \o Plain(k - 1, sides)

\* the dice lists of an Attack, <<damage dice, crit dice>>: 2d6 with 4d6 + 6d8
\* (the worked example), 2d6 rerolling 1 and 2 with its double, 1d8 floored
\* at 2 with 2d8, and none
DiceLists ==
    { <<Plain(2, 6), Plain(4, 6) \o Plain(6, 8)>>,
      <<<<DieEntry(6, 2, 1), DieEntry(6, 2, 1)>>,
        <<DieEntry(6, 2, 1), DieEntry(6, 2, 1), DieEntry(6, 2, 1), DieEntry(6, 2, 1)>>>>,
      <<<<DieEntry(8, 0, 2)>>, Plain(2, 8)>>,
      <<<<>>, <<>>>> }

\* an Attack is handed its dice as DiceSet objects, as the test script does,
\* or as the dice lists themselves
DiceArguments ==
    { <<DiceSet_new(Array(l[1])), DiceSet_new(Array(l[2]))>> : l \in DiceLists }
    \cup { <<Array(l[1]), Array(l[2])>> : l \in DiceLists }

Attacks ==
    { Attack_new("Holy Attack", ab, db, dice[1], dice[2], adv, gwm, cr, ac) :
        ab \in {Num(9), Num(18)}, db \in {Num(0), Num(5)}, dice \in DiceArguments,
        adv \in Advantages, gwm \in BOOLEAN, cr \in {Num(19), Num(20)},
        ac \in {Num(15), Num(30)} }

\* the Attack of the test script, with the crit dice of the worked example,
\* 4d6 + 6d8 (the script itself lists 4d6 + 8d8)
WorkedExample ==
    Attack_new("Holy Attack", Num(9), Num(5),
               DiceSet_new(Array(Plain(2, 6))),
               DiceSet_new(Array(Plain(4, 6) \o Plain(6, 8))),
               Num(2), TRUE, Num(20), Num(15))

\* each Attack is queried at most MaxCalls times
MaxCalls == 3
Queries == { "getAverageFromDice", "getAverageFromBonus",
             "getAverageFromCritFactor", "getAverageTotal" }

-----------------------------------------------------------------------------
(* Specification SpecDie: a Die is constructed and its methods are called *)

HitIdle == hitArgs = None /\ hitRet = None
SetIdle == diceset = None /\ setRet = None /\ critSet = None
AttackIdle == attack = None /\ attack0 = None /\ calls = 0
              /\ ret = None /\ first = None
DieIdle == die = None /\ dieRet = None

InitDie ==
    /\ die \in Dice
    /\ dieRet = None
    /\ HitIdle /\ SetIdle /\ AttackIdle

Die_getAverageRoll ==
    /\ dieRet' = [op |-> "getAverageRoll", v |-> getAverageRoll(die)]
    /\ UNCHANGED <<die, hitArgs, hitRet, diceset, setRet, critSet,
                   attack, attack0, calls, ret, first>>

Die_getSides ==
    /\ dieRet' = [op |-> "getSides", v |-> getSides(die)]
    /\ UNCHANGED <<die, hitArgs, hitRet, diceset, setRet, critSet,
                   attack, attack0, calls, ret, first>>

NextDie == Die_getAverageRoll \/ Die_getSides

SpecDie == InitDie /\ [][NextDie]_vars

-----------------------------------------------------------------------------
(* Properties of Die.getAverageRoll, under SpecDie *)

AveragedDie == dieRet # None /\ dieRet.op = "getAverageRoll"

\* the sum over the faces f in 1..v of max(f, M)
RECURSIVE SumFloored(_, _)
SumFloored(v, M) ==
    IF v <= 0 THEN 0 ELSE (IF v < M THEN M ELSE v) + SumFloored(v - 1, M)

\* S * S times the expected value of: roll f uniformly on 1..S; when f <= R
\* roll again once and keep the second roll; summed over the first rolls 1..f
RECURSIVE SumRerolledOnce(_, _, _)
SumRerolledOnce(f, S, R) ==
    IF f <= 0 THEN 0
    ELSE (IF f <= R THEN SumFloored(S, 1) ELSE S * f) + SumRerolledOnce(f - 1, S, R)

\* C2: with sides S >= 1, no reroll and 1 <= minRoll M <= S, getAverageRoll
\* returns (sum over v in 1..S of max(v, M)) / S, which is (S+1)/2 for M = 1.
C2_FlooredAverage ==
    (/\ AveragedDie
     /\ die.sides.n >= 1 /\ die.reroll.n = 0
     /\ 1 <= die.minRoll.n /\ die.minRoll.n <= die.sides.n)
    => /\ dieRet.v = Norm(SumFloored(die.sides.n, die.minRoll.n), die.sides.n)
       /\ die.minRoll.n = 1 => dieRet.v = Norm(die.sides.n + 1, 2)

\* a d6 floored at 3, without reroll, has been averaged
C2_Witness ==
    /\ AveragedDie
    /\ die = Die_new(Num(6), Num(0), Num(3))
    /\ dieRet.v = Num(4)

\* the closed form of the reroll > minRoll branch, with the triangular number
\* of X subtracted
RerollAboveFloorForm(S, R, M, X) ==
    Div(Add(Sub(Sub(Add(T(S), T(Sub(M, Num(1)))), Mul(R, M)), T(X)),
            Mul(R, Div(Add(T(S), T(Sub(M, Num(1)))), S))),
        S)

\* C3 as stated: of a die (S >= 1, M >= 1) with reroll R > minRoll M,
\* getAverageRoll returns
\* (T(S) + T(M-1) - R*M - T(R) + R * avgNoReroll(S, M)) / S.
C3_AsStated ==
    (AveragedDie /\ die.sides.n >= 1 /\ die.minRoll.n >= 1
     /\ die.reroll.n > die.minRoll.n)
    => dieRet.v = RerollAboveFloorForm(die.sides, die.reroll, die.minRoll,
                                       die.reroll)

\* C3 amended: with reroll R > minRoll M and R # 0, getAverageRoll returns
\* (T(S) + T(M-1) - R*M - T(M) + R * avgNoReroll(S, M)) / S: the triangular
\* number subtracted is that of minRoll.
C3_Amended ==
    (AveragedDie /\ die.reroll.n > die.minRoll.n /\ die.reroll.n # 0)
    => dieRet.v = RerollAboveFloorForm(die.sides, die.reroll, die.minRoll,
                                       die.minRoll)

\* a d6 rerolling 3 and below, floored at 1, has been averaged
C3_Witness ==
    /\ AveragedDie
    /\ die = Die_new(Num(6), Num(3), Num(1))
    /\ dieRet.v = Norm(55, 12)

\* C6: getAverageRoll never returns NaN or an infinity (the constructor
\* rejects nothing, so every Die of integer parameters is averaged).
C6_AlwaysFinite == AveragedDie => IsFinite(dieRet.v)

\* C9: with S >= 2, minRoll 1 and 0 < R < S, getAverageRoll returns the exact
\* expected value of rerolling once a first roll <= R and keeping the second,
\* which is (T(S) - T(R) + R * (S+1)/2) / S.
C9_RerollOnceExact ==
    (/\ AveragedDie
     /\ die.sides.n >= 2 /\ die.minRoll.n = 1
     /\ 0 < die.reroll.n /\ die.reroll.n < die.sides.n)
    => /\ dieRet.v = Norm(SumRerolledOnce(die.sides.n, die.sides.n, die.reroll.n),
                          die.sides.n * die.sides.n)
       /\ dieRet.v = Div(Add(Sub(T(die.sides), T(die.reroll)),
                             Mul(die.reroll, Div(Add(die.sides, Num(1)), Num(2)))),
                         die.sides)

\* C10: with 1 <= minRoll M <= S and 0 <= R < S, getAverageRoll returns a
\* value in the closed interval [M, S].
C10_AverageInRange ==
    (/\ AveragedDie
     /\ 1 <= die.minRoll.n /\ die.minRoll.n <= die.sides.n
     /\ 0 <= die.reroll.n /\ die.reroll.n < die.sides.n)
    => Le(die.minRoll, dieRet.v) /\ Le(dieRet.v, die.sides)


-----------------------------------------------------------------------------
(* Specification SpecHit: p_hit is called *)

InitHit ==
    /\ hitArgs \in [A : { Num(k) : k \in 0 .. MaxAC },
                    B : { Num(k) : k \in -MaxPenalty .. MaxBonus },
                    M : Advantages]
    /\ hitRet = None
    /\ DieIdle /\ SetIdle /\ AttackIdle

Call_p_hit ==
    /\ hitRet = None
    /\ hitRet' = p_hit(hitArgs.A, hitArgs.B, hitArgs.M)
    /\ UNCHANGED <<die, dieRet, hitArgs, diceset, setRet, critSet,
                   attack, attack0, calls, ret, first>>

NextHit == Call_p_hit

SpecHit == InitHit /\ [][NextHit]_vars

-----------------------------------------------------------------------------
(* Specification SpecSet: a DiceSet is constructed from a dice list, dice   *)
(* are added, it is averaged and its default crit dice are calculated       *)

InitSet ==
    /\ diceset \in DiceSets
    /\ setRet = None
    /\ critSet = None
    /\ DieIdle /\ HitIdle /\ AttackIdle

DiceSet_addDie ==
    /\ length(diceset) < MaxDice + MaxAdded
    /\ \E e \in DieEntries :
          diceset' = addDie(diceset, Die_new(e.sides, e.reroll, e.minRoll))
    /\ UNCHANGED <<die, dieRet, hitArgs, hitRet, setRet, critSet,
                   attack, attack0, calls, ret, first>>

DiceSet_getAverageRolls ==
    /\ setRet' = [of |-> diceset, v |-> getAverageRolls(diceset)]
    /\ UNCHANGED <<die, dieRet, hitArgs, hitRet, diceset, critSet,
                   attack, attack0, calls, ret, first>>

Call_calculateDefaultCritDice ==
    /\ critSet' = [of |-> diceset, v |-> calculateDefaultCritDice(diceset)]
    /\ UNCHANGED <<die, dieRet, hitArgs, hitRet, diceset, setRet,
                   attack, attack0, calls, ret, first>>

NextSet == DiceSet_addDie \/ DiceSet_getAverageRolls \/ Call_calculateDefaultCritDice

SpecSet == InitSet /\ [][NextSet]_vars

-----------------------------------------------------------------------------
(* Specification SpecAttack: an Attack is constructed and queried *)

InitAttack ==
    /\ attack \in Attacks \cup {WorkedExample}
    /\ attack0 = attack
    /\ calls = 0
    /\ ret = [q \in Queries |-> None]
    /\ first = [q \in Queries |-> None]
    /\ DieIdle /\ HitIdle /\ SetIdle

\* the query q has returned r.v and left the Attack as r.this
Returned(q, r) ==
    /\ calls < MaxCalls
    /\ calls' = calls + 1
    /\ attack' = r.this
    /\ ret' = [ret EXCEPT ![q] = r.v]
    /\ first' = IF first[q] = None THEN [first EXCEPT ![q] = r.v] ELSE first
    /\ UNCHANGED <<die, dieRet, hitArgs, hitRet, diceset, setRet, critSet, attack0>>

Attack_getAverageFromDice ==
    Returned("getAverageFromDice", getAverageFromDice(attack))

Attack_getAverageFromBonus ==
    Returned("getAverageFromBonus", getAverageFromBonus(attack))

Attack_getAverageFromCritFactor ==
    Returned("getAverageFromCritFactor", getAverageFromCritFactor(attack))

Attack_getAverageTotal ==
    Returned("getAverageTotal", getAverageTotal(attack))

NextAttack ==
    \/ Attack_getAverageFromDice
    \/ Attack_getAverageFromBonus
    \/ Attack_getAverageFromCritFactor
    \/ Attack_getAverageTotal

SpecAttack == InitAttack /\ [][NextAttack]_vars

-----------------------------------------------------------------------------
(* Properties of p_hit, under SpecHit *)

\* the number of faces f of a d20 that hit armor class A with bonus B: a 20
\* always, a 1 never, another face when f + B >= A
HittingFaces(A, B) ==
    Cardinality({ f \in 1 .. 20 : f = 20 \/ (f # 1 /\ f + B >= A) })

\* C4: for a fixed attack bonus, p_hit(A, B, 1) does not increase with the
\* target's armor class A.
C4_NonIncreasingInAC ==
    (hitRet # None /\ hitArgs.M = Num(1))
    => \A k \in hitArgs.A.n .. MaxAC :
          Le(p_hit(Num(k), hitArgs.B, Num(1)), hitRet)

\* C8: p_hit(A, B, M) is 1 - (1 - h)^M, where h is the fraction of the 20
\* faces of a d20 that hit.
C8_FractionOfFaces ==
    hitRet # None
    => hitRet = Sub(Num(1),
                    Pow(Sub(Num(1), Norm(HittingFaces(hitArgs.A.n, hitArgs.B.n), 20)),
                        hitArgs.M))

-----------------------------------------------------------------------------
(* Properties of calculateDefaultCritDice, under SpecSet *)

\* the sum of (s + 1) / 2 over the sides s of the dice from index i on
RECURSIVE PlainAverage(_, _)
PlainAverage(dice, i) ==
    IF i > Len(dice) THEN Num(0)
    ELSE Add(Div(Add(dice[i].sides, Num(1)), Num(2)), PlainAverage(dice, i + 1))

\* C5: of a non-empty DiceSet of n dice, calculateDefaultCritDice returns a
\* DiceSet of 2n dice whose i-th die has the sides of the input's die
\* i mod n, reroll 0 and minRoll 1, so that its getAverageRolls() is twice
\* the plain-dice average of the input.
C5_DoubledPlainDice ==
    (critSet # None /\ Len(critSet.of.dice) > 0)
    => LET n == Len(critSet.of.dice)
           out == critSet.v
       IN  /\ Len(out.dice) = 2 * n
           /\ \A i \in 0 .. 2 * n - 1 :
                 /\ i + 1 \in DOMAIN out.dice
                 /\ out.dice[i + 1] =
                      Die_new(critSet.of.dice[(i % n) + 1].sides, Num(0), Num(1))
           /\ getAverageRolls(out) = Mul(Num(2), PlainAverage(critSet.of.dice, 1))

-----------------------------------------------------------------------------
(* Properties of the Attack queries, under SpecAttack *)

HandedDiceSets == attack0.damage_dice.t = "DiceSet" /\ attack0.crit_dice.t = "DiceSet"

\* C1: of an Attack handed DiceSet objects, getAverageTotal() returns
\* p_hit * (damage_dice.getAverageRolls() + effDB)
\*   + p_crit * (crit_dice.getAverageRolls() - damage_dice.getAverageRolls()),
\* and the worked example gives 5.25, 11.25, 3.315 and 19.815.
C1_TotalOfDiceSets ==
    LET effAB == IF attack0.gwmsharp THEN Sub(attack0.attack_bonus, Num(5))
                 ELSE attack0.attack_bonus
        effDB == IF attack0.gwmsharp THEN Add(attack0.damage_bonus, Num(10))
                 ELSE attack0.damage_bonus
        hit == p_hit(attack0.target_AC, effAB, attack0.advantage_modifier)
        crit == p_crit(attack0.crit_range, attack0.advantage_modifier)
        damage == getAverageRolls(attack0.damage_dice)
        critical == getAverageRolls(attack0.crit_dice)
    IN  (attack # None /\ HandedDiceSets)
        => /\ ret["getAverageTotal"] # None
              => ret["getAverageTotal"] =
                   Add(Mul(hit, Add(damage, effDB)), Mul(crit, Sub(critical, damage)))
           /\ attack0 = WorkedExample
              => /\ ret["getAverageFromDice"] \in {None, Norm(525, 100)}
                 /\ ret["getAverageFromBonus"] \in {None, Norm(1125, 100)}
                 /\ ret["getAverageFromCritFactor"] \in {None, Norm(3315, 1000)}
                 /\ ret["getAverageTotal"] \in {None, Norm(19815, 1000)}

\* C7: the queries leave the Attack, its fields and its dice, as constructed,
\* and each query returns what its first call returned.
C7_QueriesChangeNothing ==
    attack # None
    => /\ attack = attack0
       /\ \A q \in Queries : ret[q] # None => ret[q] = first[q]

\* a power attack with dice has been queried MaxCalls times, by two of the
\* queries only: one of them was called again
C7_Witness ==
    /\ attack # None
    /\ calls = MaxCalls
    /\ attack0.gwmsharp /\ attack0.damage_dice = Array(Plain(2, 6))
    /\ ret["getAverageFromDice"] # None /\ ret["getAverageTotal"] # None
    /\ ret["getAverageFromBonus"] = None /\ ret["getAverageFromCritFactor"] = None

====
